---- MODULE Spec2Model ----
(***************************************************************************)
(* A model of the peel-off crate: the Peel trait, its blanket impl for     *)
(* Result<T, E>, the Peeled<P, R> sum type with its Display and Error      *)
(* impls, and the implementations and the `handle` function its unit tests *)
(* define.                                                                 *)
(*                                                                         *)
(* Rust values are records.  Leaves are wrapped so that values of          *)
(* different Rust types are never confused: U64(n), I32(v), Str(s).        *)
(* Result is [tag |-> "Ok" | "Err", val |-> payload].                      *)
(***************************************************************************)
EXTENDS Integers, Sequences, FiniteSets, TLC

VARIABLES op, input, out, calls, pc, arg, inner, ret, reached, cases, shapes

vars == <<op, input, out, calls, pc, arg, inner, ret, reached, cases, shapes>>

harness == <<op, input, out, calls>>
frame == <<pc, arg, inner, ret, reached>>
history == <<cases, shapes>>

----------------------------------------------------------------------------
(* Bounds of the model *)

MaxMs == 2
MaxVal == 2

----------------------------------------------------------------------------
(* Values *)

U64(n) == [u64 |-> n]
I32(v) == [i32 |-> v]
Str(s) == [str |-> s]

Ok(v) == [tag |-> "Ok", val |-> v]
Err(e) == [tag |-> "Err", val |-> e]

None == [tag |-> "None"]
Some(c) == [tag |-> "Some", val |-> c]

\* a panic unwinds out of the function: no value is returned
Panic == [tag |-> "Panic"]

I32Max == 2147483647
I32Min == -2147483647 - 1

\* the milliseconds the tests use, and the small ones
Ms == (0..MaxMs) \cup {100, 300, 500}
Strs == {"", "key", "x", "boom"}
Vals == (-MaxVal..MaxVal) \cup {21, I32Max, I32Min}

\* enum MyError { Timeout(u64), NotFound(String), Internal(String) }
MyError_Timeout(ms) == [ty |-> "MyError", tag |-> "Timeout", val |-> U64(ms)]
MyError_NotFound(s) == [ty |-> "MyError", tag |-> "NotFound", val |-> Str(s)]
MyError_Internal(s) == [ty |-> "MyError", tag |-> "Internal", val |-> Str(s)]

MyError == {MyError_Timeout(ms) : ms \in Ms}
             \cup {MyError_NotFound(s) : s \in Strs}
             \cup {MyError_Internal(s) : s \in Strs}

\* enum ResidualError { NotFound(String), Internal(String) }
ResidualError_NotFound(s) ==
    [ty |-> "ResidualError", tag |-> "NotFound", val |-> Str(s)]
ResidualError_Internal(s) ==
    [ty |-> "ResidualError", tag |-> "Internal", val |-> Str(s)]

ResidualError == {ResidualError_NotFound(s) : s \in Strs}
                   \cup {ResidualError_Internal(s) : s \in Strs}

\* struct Timeout(u64); struct NotFound(String);
Timeout(ms) == [ty |-> "Timeout", val |-> U64(ms)]
NotFound(s) == [ty |-> "NotFound", val |-> Str(s)]

TimeoutT == {Timeout(ms) : ms \in Ms}
NotFoundT == {NotFound(s) : s \in Strs}

\* A payload of a type parameter bounded by Error whose source() is overridden:
\* it returns the cause the value holds.
Chained(c) == [ty |-> "Chained", cause |-> c]
Causes == {Timeout(0), NotFound("x")}
ChainedT == {Chained(c) : c \in Causes}

\* enum Peeled<P, R> { Peeled(P), Residual(R) }
Peeled_Peeled(p) == [ty |-> "Peeled", tag |-> "Peeled", val |-> p]
Peeled_Residual(r) == [ty |-> "Peeled", tag |-> "Residual", val |-> r]

\* Peeled<Timeout, NotFound>, as in the tests
PeeledTN == {Peeled_Peeled(p) : p \in TimeoutT}
              \cup {Peeled_Residual(r) : r \in NotFoundT}
\* Peeled<P, R> with P, R among Timeout, NotFound and Chained
PeeledErr == {Peeled_Peeled(p) : p \in TimeoutT \cup ChainedT}
               \cup {Peeled_Residual(r) : r \in NotFoundT \cup ChainedT}

\* Result<&str, MyError>
ResultStrMyError == {Ok(Str(s)) : s \in Strs} \cup {Err(e) : e \in MyError}
\* Result<i32, MyError>
ResultI32MyError == {Ok(I32(v)) : v \in Vals} \cup {Err(e) : e \in MyError}
\* Result<&str, Peeled<Timeout, NotFound>>
ResultStrPeeled == {Ok(Str(s)) : s \in Strs} \cup {Err(e) : e \in PeeledTN}

----------------------------------------------------------------------------
(* The functions *)

\* impl Peel for MyError
MyErrorPeel(self) ==
    CASE self.tag = "Timeout" -> Err(self.val)
      [] self.tag = "NotFound" -> Ok(ResidualError_NotFound(self.val.str))
      [] self.tag = "Internal" -> Ok(ResidualError_Internal(self.val.str))

\* Peeled::peel with the two arms swapped
PeeledPeel_Swapped(self) ==
    CASE self.tag = "Residual" -> Err(self.val)
      [] self.tag = "Peeled" -> Ok(self.val)

\* Peeled::peel that forgets the tag: every payload leaves by the residual arm
PeeledPeel_AlwaysResidual(self) == Ok(self.val)

\* Peeled::peel whose Peeled arm is unreachable!()
PeeledPeel_Partial(self) ==
    CASE self.tag = "Residual" -> Ok(self.val)
      [] self.tag = "Peeled" -> Panic

\* impl<P, R> Peel for Peeled<P, R>
PeeledPeel(self) ==
    CASE self.tag = "Residual" -> Ok(self.val)
      [] self.tag = "Peeled" -> Err(self.val)

\* e.peel() for E: Peel: the impl of Peel for the type of e
EPeel(e) ==
    CASE e.ty = "MyError" -> MyErrorPeel(e)
      [] e.ty = "Peeled" -> PeeledPeel(e)

\* Result::peel that wraps the peeled payload in the container again
ResultPeel_DoubleWrap(self) ==
    IF self.tag = "Ok"
    THEN [ret |-> Ok(Ok(self.val)), calls |-> <<>>]
    ELSE LET r == EPeel(self.val) IN
         [ret |-> IF r.tag = "Ok" THEN Ok(Err(r.val)) ELSE Err(Err(r.val)),
          calls |-> <<self.val.ty \o "::peel">>]

\* Result::peel that turns a residual failure into a success
ResultPeel_ResidualAsSuccess(self) ==
    IF self.tag = "Ok"
    THEN [ret |-> Ok(Ok(self.val)), calls |-> <<>>]
    ELSE LET r == EPeel(self.val) IN
         [ret |-> IF r.tag = "Ok" THEN Ok(Ok(r.val)) ELSE Err(r.val),
          calls |-> <<self.val.ty \o "::peel">>]

\* Result::peel that peels the success value off
ResultPeel_SuccessPeeled(self) ==
    IF self.tag = "Ok"
    THEN [ret |-> Err(self.val), calls |-> <<>>]
    ELSE LET r == EPeel(self.val) IN
         [ret |-> IF r.tag = "Ok" THEN Ok(Err(r.val)) ELSE Err(r.val),
          calls |-> <<self.val.ty \o "::peel">>]

\* Result::peel that keeps the peeled payload in the residual arm
ResultPeel_PeeledKept(self) ==
    IF self.tag = "Ok"
    THEN [ret |-> Ok(Ok(self.val)), calls |-> <<>>]
    ELSE LET r == EPeel(self.val) IN
         [ret |-> Ok(Err(r.val)), calls |-> <<self.val.ty \o "::peel">>]

\* Result::peel that sends every failure to the peeled arm
ResultPeel_ResidualAsPeeled(self) ==
    IF self.tag = "Ok"
    THEN [ret |-> Ok(Ok(self.val)), calls |-> <<>>]
    ELSE LET r == EPeel(self.val) IN
         [ret |-> Err(r.val), calls |-> <<self.val.ty \o "::peel">>]

\* impl<T, E: Peel> Peel for Result<T, E>: .ret is the value returned, .calls
\* the calls of E::peel the body makes
ResultPeel(self) ==
    IF self.tag = "Ok"
    THEN [ret |-> Ok(Ok(self.val)), calls |-> <<>>]
    ELSE LET r == EPeel(self.val) IN
         [ret |-> IF r.tag = "Ok" THEN Ok(Err(r.val)) ELSE Err(r.val),
          calls |-> <<self.val.ty \o "::peel">>]

\* the arm of the two matches of Result::peel that an input takes
LiftCase(self) ==
    IF self.tag = "Ok" THEN "success"
    ELSE IF EPeel(self.val).tag = "Ok" THEN "failure-residual"
    ELSE "failure-peeled"

\* the shape of a value of Result<Result<T, E::Residual>, E::Peeled>
Shape(o) ==
    IF o.tag = "Err" THEN "peeled"
    ELSE IF o.tag = "Ok" /\ o.val.tag = "Ok" THEN "residual-success"
    ELSE IF o.tag = "Ok" /\ o.val.tag = "Err" THEN "residual-failure"
    ELSE "other"

\* <u64 as Display>::fmt: the decimal digits of n, most significant first
RECURSIVE U64Fmt(_, _)
U64Fmt(n, f) ==
    IF n < 10 THEN f \o SubSeq("0123456789", n + 1, n + 1)
    ELSE U64Fmt(n \div 10, f) \o SubSeq("0123456789", (n % 10) + 1, (n % 10) + 1)

\* impl fmt::Display for Timeout: write!(f, "timeout: {}ms", self.0)
TimeoutFmt(self, f) == U64Fmt(self.val.u64, f \o "timeout: ") \o "ms"

\* impl fmt::Display for NotFound: write!(f, "not found: {}", self.0)
NotFoundFmt(self, f) == (f \o "not found: ") \o self.val.str

\* r.fmt(f) / p.fmt(f): the Display impl of the payload's type
DisplayFmt(x, f) ==
    CASE x.ty = "Timeout" -> TimeoutFmt(x, f)
      [] x.ty = "NotFound" -> NotFoundFmt(x, f)

\* Display for Peeled that frames the payload with the variant's name
PeeledFmt_Framed(self, f) ==
    CASE self.tag = "Residual" -> DisplayFmt(self.val, f \o "Residual(") \o ")"
      [] self.tag = "Peeled" -> DisplayFmt(self.val, f \o "Peeled(") \o ")"

\* impl fmt::Display for Peeled<P, R>
PeeledFmt(self, f) ==
    CASE self.tag = "Residual" -> DisplayFmt(self.val, f)
      [] self.tag = "Peeled" -> DisplayFmt(self.val, f)

\* r.source() / p.source(): the Error impl of the payload's type.  Timeout and
\* NotFound keep the trait's default, which is None.
ErrorSource(x) ==
    CASE x.ty = "Timeout" -> None
      [] x.ty = "NotFound" -> None
      [] x.ty = "Chained" -> Some(x.cause)

\* Error for Peeled that keeps the trait's default source()
PeeledSource_Default(self) == None

\* impl Error for Peeled<P, R>
PeeledSource(self) ==
    CASE self.tag = "Residual" -> ErrorSource(self.val)
      [] self.tag = "Peeled" -> ErrorSource(self.val)

\* v * 2 on i32: whether it overflows, and the wrapped product
Mul2Overflows(v) == v > I32Max \div 2 \/ v < I32Min \div 2
Mul2Wrapped(v) ==
    LET half == (I32Max \div 2) + 1 IN
    IF v > I32Max \div 2 THEN ((v - half) - half) * 2
    ELSE IF v < I32Min \div 2 THEN ((v + half) + half) * 2
    ELSE v * 2

----------------------------------------------------------------------------
(* The tests as a state machine *)

Init ==
    /\ op = "none"
    /\ input = None
    /\ out = None
    /\ calls = <<>>
    /\ pc = "idle"
    /\ arg = None
    /\ inner = None
    /\ ret = None
    /\ reached = FALSE
    /\ cases = {}
    /\ shapes = {}

\* err.peel() on a MyError
PeelMyError ==
    \E e \in MyError :
        /\ op' = "MyError::peel"
        /\ input' = e
        /\ out' = MyErrorPeel(e)
        /\ calls' = <<"MyError::peel">>
        /\ UNCHANGED <<frame, history>>

\* p.peel() on a Peeled<P, R>
PeelPeeled ==
    \E p \in PeeledErr :
        /\ op' = "Peeled::peel"
        /\ input' = p
        /\ out' = PeeledPeel(p)
        /\ calls' = <<"Peeled::peel">>
        /\ UNCHANGED <<frame, history>>

\* res.peel() on a Result<&str, MyError>
PeelResult ==
    \E res \in ResultStrMyError :
        LET r == ResultPeel(res) IN
        /\ op' = "Result::peel"
        /\ input' = res
        /\ out' = r.ret
        /\ calls' = <<"Result::peel">> \o r.calls
        /\ cases' = cases \cup {LiftCase(res)}
        /\ shapes' = shapes \cup {Shape(r.ret)}
        /\ UNCHANGED frame

\* res.peel() on a Result<&str, Peeled<Timeout, NotFound>>
PeelResultOfPeeled ==
    \E res \in ResultStrPeeled :
        LET r == ResultPeel(res) IN
        /\ op' = "Result<_, Peeled>::peel"
        /\ input' = res
        /\ out' = r.ret
        /\ calls' = <<"Result::peel">> \o r.calls
        /\ cases' = cases \cup {LiftCase(res)}
        /\ shapes' = shapes \cup {Shape(r.ret)}
        /\ UNCHANGED frame

\* format!("{p}") on a Peeled<Timeout, NotFound>: fmt on an empty buffer
Display ==
    \E p \in PeeledTN :
        /\ op' = "Peeled::fmt"
        /\ input' = p
        /\ out' = Str(PeeledFmt(p, ""))
        /\ calls' = <<"Peeled::fmt">>
        /\ UNCHANGED <<frame, history>>

\* p.source() on a Peeled<P, R>
Source ==
    \E p \in PeeledErr :
        /\ op' = "Peeled::source"
        /\ input' = p
        /\ out' = PeeledSource(p)
        /\ calls' = <<"Peeled::source">>
        /\ UNCHANGED <<frame, history>>

\* fn handle(res: Result<i32, MyError>) -> Result<i32, u64> is entered
HandleCall ==
    /\ pc = "idle"
    /\ \E res \in ResultI32MyError : arg' = res
    /\ pc' = "peel"
    /\ inner' = None
    /\ ret' = None
    /\ reached' = FALSE
    /\ UNCHANGED <<harness, history>>

\* let inner = res.peel()?;
HandlePeel ==
    /\ pc = "peel"
    /\ LET r == ResultPeel(arg).ret IN
       /\ IF r.tag = "Err"
          THEN /\ ret' = Err(r.val)
               /\ pc' = "return"
               /\ UNCHANGED inner
          ELSE /\ inner' = r.val
               /\ pc' = "match"
               /\ UNCHANGED ret
       /\ cases' = cases \cup {LiftCase(arg)}
       /\ shapes' = shapes \cup {Shape(r)}
    /\ UNCHANGED <<harness, arg, reached>>

\* match inner { Ok(v) => Ok(v * 2), Err(_residual) => Ok(-1) }
\* v * 2 panics on overflow when the build checks overflow, and wraps otherwise
HandleMatch ==
    /\ pc = "match"
    /\ reached' = TRUE
    /\ IF inner.tag = "Ok"
       THEN LET v == inner.val.i32 IN
            IF Mul2Overflows(v)
            THEN \E checks \in BOOLEAN :
                     ret' = IF checks THEN Panic ELSE Ok(I32(Mul2Wrapped(v)))
            ELSE ret' = Ok(I32(v * 2))
       ELSE ret' = Ok(I32(-1))
    /\ pc' = "return"
    /\ UNCHANGED <<harness, arg, inner, history>>

\* handle returns (or unwinds) to the test
HandleReturn ==
    /\ pc = "return"
    /\ pc' = "idle"
    /\ UNCHANGED <<harness, arg, inner, ret, reached, history>>

Next ==
    \/ PeelMyError
    \/ PeelPeeled
    \/ PeelResult
    \/ PeelResultOfPeeled
    \/ Display
    \/ Source
    \/ HandleCall
    \/ HandlePeel
    \/ HandleMatch
    \/ HandleReturn

Spec == Init /\ [][Next]_vars

----------------------------------------------------------------------------
(* Properties *)

LiftOps == {"Result::peel", "Result<_, Peeled>::peel"}
PeelOps == LiftOps \cup {"Peeled::peel"}

\* the inputs an operation of the tests draws from
DomainOf(o) ==
    CASE o = "Result::peel" -> ResultStrMyError
      [] o = "Result<_, Peeled>::peel" -> ResultStrPeeled
      [] o = "Peeled::peel" -> PeeledErr

\* what an operation of the tests returns for the input x
PeelBy(o, x) ==
    CASE o = "Result::peel" -> ResultPeel(x).ret
      [] o = "Result<_, Peeled>::peel" ->
             ResultPeel(x).ret
      [] o = "Peeled::peel" -> PeeledPeel(x)

\* C1: lifting a failure whose error peels to the peeled arm Err(p) returns
\* Err(p) itself: the payload is flattened, not wrapped in a residual arm or
\* in the container again; Err(Timeout(100)).peel() is Err(100).
LiftFailurePeeled ==
    /\ (op \in LiftOps /\ input.tag = "Err" /\ EPeel(input.val).tag = "Err")
          => out = Err(EPeel(input.val).val)
    /\ (op = "Result::peel" /\ input = Err(MyError_Timeout(100)))
          => out = Err(U64(100))

LiftFailurePeeledSeen ==
    /\ op = "Result::peel"
    /\ input = Err(MyError_Timeout(100))
    /\ out = Err(U64(100))

\* C2: lifting a failure whose error peels to the residual arm Ok(r) returns
\* Ok(Err(r)): the residual arm, still carrying a failure, now holding r.
LiftFailureResidual ==
    /\ (op \in LiftOps /\ input.tag = "Err" /\ EPeel(input.val).tag = "Ok")
          => out = Ok(Err(EPeel(input.val).val))
    /\ (op = "Result::peel" /\ input = Err(MyError_Internal("boom")))
          => out = Ok(Err(ResidualError_Internal("boom")))

LiftFailureResidualSeen ==
    /\ op = "Result::peel"
    /\ input = Err(MyError_Internal("boom"))
    /\ out = Ok(Err(ResidualError_Internal("boom")))

\* C3: lifting a success Ok(v) returns Ok(Ok(v)) with v unchanged, never the
\* peeled arm, whatever the error type is, and the error type's peel is not
\* called.
LiftSuccess ==
    (op \in LiftOps /\ input.tag = "Ok")
       => /\ out = Ok(Ok(input.val))
          /\ out.tag # "Err"
          /\ calls = <<"Result::peel">>

LiftSuccessSeen ==
    /\ op = "Result<_, Peeled>::peel"
    /\ input = Ok(Str("key"))
    /\ out = Ok(Ok(Str("key")))

\* C4: Peeled::Peeled(p).peel() is the peeled arm Err(p) and
\* Peeled::Residual(r).peel() is the residual arm Ok(r): the tag alone decides
\* the arm and the arms are never swapped.
PeeledRoundTrip ==
    op = "Peeled::peel"
       => /\ input.tag = "Peeled" => out = Err(input.val)
          /\ input.tag = "Residual" => out = Ok(input.val)
          /\ (out.tag = "Err") = (input.tag = "Peeled")

PeeledRoundTripSeen ==
    /\ op = "Peeled::peel"
    /\ input = Peeled_Peeled(Timeout(500))
    /\ out = Err(Timeout(500))

\* C5: in handle, a failure whose error peels to the peeled arm makes
\* `res.peel()?` return Err(p) at once and the match after it never runs; for
\* a success or a residual failure handle does not return early and the match
\* runs on the inner residual result.  handle(Ok(21)) is Ok(42),
\* handle(Err(Timeout(300))) is Err(300), handle(Err(NotFound)) is Ok(-1).
HandleStarted == pc \in {"match", "return"} \/ (pc = "idle" /\ arg # None)

PropagationIdiom ==
    /\ HandleStarted =>
         IF LiftCase(arg) = "failure-peeled"
         THEN /\ pc # "match"
              /\ ~reached
              /\ inner = None
              /\ ret = Err(MyErrorPeel(arg.val).val)
         ELSE /\ inner = IF arg.tag = "Ok" THEN Ok(arg.val)
                         ELSE Err(MyErrorPeel(arg.val).val)
              /\ pc = "match" => (~reached /\ ret = None)
              /\ pc # "match" =>
                    /\ reached
                    /\ ret.tag # "Err"
                    /\ arg.tag = "Err" => ret = Ok(I32(-1))
                    /\ (arg.tag = "Ok" /\ ~Mul2Overflows(arg.val.i32))
                          => ret = Ok(I32(arg.val.i32 * 2))
    /\ (pc = "return" /\ arg = Ok(I32(21))) => ret = Ok(I32(42))
    /\ (pc = "return" /\ arg = Err(MyError_Timeout(300))) => ret = Err(U64(300))
    /\ (pc = "return" /\ arg = Err(MyError_NotFound("x"))) => ret = Ok(I32(-1))

PropagationIdiomSeen ==
    /\ pc = "return"
    /\ arg = Err(MyError_Timeout(300))
    /\ ret = Err(U64(300))
    /\ ~reached

\* the payload a value carries: what is left under its variants
RECURSIVE Leaf(_)
Leaf(x) == IF "val" \in DOMAIN x THEN Leaf(x.val) ELSE x

\* the MyError that peels to o
MyErrorUnpeel(o) ==
    IF o.tag = "Err" THEN MyError_Timeout(o.val.u64)
    ELSE IF o.val.tag = "NotFound" THEN MyError_NotFound(o.val.val.str)
    ELSE MyError_Internal(o.val.val.str)

\* the Peeled<P, R> that peels to o
PeeledUnpeel(o) ==
    IF o.tag = "Err" THEN Peeled_Peeled(o.val) ELSE Peeled_Residual(o.val)

\* the E (MyError or Peeled) that peels to o
EUnpeel(E, o) == IF E = "MyError" THEN MyErrorUnpeel(o) ELSE PeeledUnpeel(o)

\* the Result<T, E> that peels to o
ResultUnpeel(E, o) ==
    IF o.tag = "Err" THEN Err(EUnpeel(E, Err(o.val)))
    ELSE IF o.val.tag = "Ok" THEN Ok(o.val.val)
    ELSE Err(EUnpeel(E, Ok(o.val.val)))

UnpeelBy(o, x) ==
    CASE o = "Result::peel" -> ResultUnpeel("MyError", x)
      [] o = "Result<_, Peeled>::peel" -> ResultUnpeel("Peeled", x)
      [] o = "Peeled::peel" -> PeeledUnpeel(x)

\* C6: the sum type's peel and the lift are lossless: the payload of the input
\* is the payload of the output, unchanged; no other input peels to the same
\* output; and the input can be rebuilt from the output.
Lossless ==
    op \in PeelOps
       => /\ Leaf(out) = Leaf(input)
          /\ \A x \in DomainOf(op) : x # input => PeelBy(op, x) # out
          /\ UnpeelBy(op, out) = input

LosslessSeen ==
    /\ op = "Peeled::peel"
    /\ input = Peeled_Peeled(Chained(NotFound("x")))
    /\ out = Err(Chained(NotFound("x")))
    /\ PeeledPeel(Peeled_Residual(Chained(NotFound("x")))) # out

\* C7: the rendering of Peeled::Residual(r) is the rendering of r and the
\* rendering of Peeled::Peeled(p) is the rendering of p, with no text added
\* before or after.
RenderingDelegation ==
    /\ op = "Peeled::fmt" => out = Str(DisplayFmt(input.val, ""))
    /\ (op = "Peeled::fmt" /\ input = Peeled_Residual(NotFound("key")))
          => out = Str("not found: key")
    /\ (op = "Peeled::fmt" /\ input = Peeled_Peeled(Timeout(100)))
          => out = Str("timeout: 100ms")

RenderingDelegationSeen ==
    /\ op = "Peeled::fmt"
    /\ input = Peeled_Peeled(Timeout(100))
    /\ out = Str("timeout: 100ms")

\* C8: the cause Peeled::Residual(r) exposes is r's own cause and the cause
\* Peeled::Peeled(p) exposes is p's own cause; when the active payload exposes
\* none, the sum type exposes none.
CauseDelegation ==
    op = "Peeled::source"
       => /\ out = ErrorSource(input.val)
          /\ input.val.ty = "Chained" => out = Some(input.val.cause)
          /\ input.val.ty \in {"Timeout", "NotFound"} => out = None

CauseDelegationSeen ==
    /\ op = "Peeled::source"
    /\ input = Peeled_Residual(Chained(Timeout(0)))
    /\ out = Some(Timeout(0))

\* exactly one of the two arms, carrying a value
IsArm(o) == DOMAIN o = {"tag", "val"} /\ o.tag \in {"Ok", "Err"}

\* C9: for every input of the sum type and of the lift, peel returns exactly
\* one of the two arms, residual or peeled: no panic and no missing result.
Totality ==
    /\ op \in PeelOps => IsArm(out)
    /\ op \in LiftOps /\ out.tag = "Ok" => IsArm(out.val)
    /\ op \in PeelOps => \A x \in DomainOf(op) : IsArm(PeelBy(op, x))

TotalitySeen ==
    /\ op = "Peeled::peel"
    /\ input = Peeled_Peeled(Timeout(0))
    /\ IsArm(out)

LiftCases == {"success", "failure-peeled", "failure-residual"}
LiftShapes == {"residual-success", "residual-failure", "peeled"}

ShapeOfCase(c) ==
    CASE c = "success" -> "residual-success"
      [] c = "failure-residual" -> "residual-failure"
      [] c = "failure-peeled" -> "peeled"

\* C10, as amended: the lift is one total mapping with three input cases
\* (success; failure to peeled; failure to residual), each with its own output
\* shape: residual arm carrying a success, residual arm carrying a failure,
\* peeled arm.  Each shape is produced by some input and no other shape is.
LiftThreeShapes ==
    /\ cases \subseteq LiftCases
    /\ shapes \subseteq LiftShapes
    /\ shapes = {ShapeOfCase(c) : c \in cases}
    /\ op \in LiftOps
          => /\ Shape(out) = ShapeOfCase(LiftCase(input))
             /\ Shape(out) \in shapes

LiftThreeShapesSeen ==
    /\ cases = LiftCases
    /\ shapes = LiftShapes

\* C10, as stated: four input cases collapse to the three output shapes, so
\* once every shape has been produced four input cases have been taken.
LiftFourCases ==
    /\ cases \subseteq LiftCases
    /\ shapes \subseteq LiftShapes
    /\ shapes = LiftShapes => Cardinality(cases) = 4

====
